---- MODULE Spec2Model ----
(***************************************************************************)
(* Model of the fridge inventory core of wesleyttt/fridges:                *)
(*   src/src/fridge/update_fridge.py  FridgeUpdater (validate, merge,      *)
(*                                    update_fridge orchestration)         *)
(*   src/src/fridge/fridge_utils.py   FridgeManager (the store gateway)    *)
(*   src/src/db/dbconnect.py          DatabaseManager.get_cursor           *)
(*                                                                         *)
(* Units: a quantity is a whole number of units, a price a whole number of *)
(* mills (1/1000 of the currency unit), so "2 decimals" is a multiple of   *)
(* 10 mills.                                                               *)
(***************************************************************************)
EXTENDS Integers, Sequences, FiniteSets, TLC

VARIABLES
    store,            \* table fridges: uid -> row (exists, fridge)
    store0,           \* history: the table at the start of the behaviour
    pc,               \* position of each update_fridge call
    uid,              \* argument uid of each call
    items,            \* argument items of each call
    current_fridge,   \* local current_fridge of each call
    updated_fridge,   \* local updated_fridge of each call
    result,           \* (success, message) returned by each call
    ops,              \* history: gateway operations made by each call
    last,             \* history: the latest gateway operation on the table
    pool_out,         \* connections taken from the pool and not put back
    db                \* the module globals of dbconnect and the threads entering it

vars == <<store, store0, pc, uid, items, current_fridge, updated_fridge,
          result, ops, last, pool_out, db>>

----------------------------------------------------------------------------
(* Bounds and input sets *)

MaxBatch == 2

Callers == {"c1", "c2"}
Uids == {"u1", "u2"}
GoodNames == {"milk", "eggs"}
BlankNames == {"", "  "}
AllNames == GoodNames \cup BlankNames

----------------------------------------------------------------------------
(* Python values that can occur as quantity / unit_price *)

Num(n) == [t |-> "num", v |-> n]       \* an int or float
NaN == [t |-> "nan", v |-> 0]          \* float('nan')
Str(n) == [t |-> "str", v |-> n]       \* a numeric string such as "2"
Bad == [t |-> "bad", v |-> 0]          \* a non-numeric string or None
Raised == [t |-> "raise", v |-> 0]     \* the expression raised

\* float(x): succeeds for numbers and numeric strings
float_ok(x) == x.t \in {"num", "nan", "str"}
float(x) == IF x.t = "str" THEN Num(x.v) ELSE x

\* x <= 0 and x < 0 on floats: every comparison with nan is False
le0(x) == x.t = "num" /\ x.v <= 0
lt0(x) == x.t = "num" /\ x.v < 0

\* a + b and a * b as merge_items meets them: a string operand ends in a
\* TypeError before the price is computed
add(a, b) ==
    IF a.t = "raise" \/ b.t = "raise" THEN Raised
    ELSE IF a.t \in {"str", "bad"} \/ b.t \in {"str", "bad"} THEN Raised
    ELSE IF a.t = "nan" \/ b.t = "nan" THEN NaN
    ELSE Num(a.v + b.v)

mul(a, b) ==
    IF a.t = "raise" \/ b.t = "raise" THEN Raised
    ELSE IF a.t \in {"str", "bad"} \/ b.t \in {"str", "bad"} THEN Raised
    ELSE IF a.t = "nan" \/ b.t = "nan" THEN NaN
    ELSE Num(a.v * b.v)

\* round(n / d, 2) for n mills over d units, d > 0: the nearest multiple of
\* 10 mills; at an exact decimal tie the binary representation decides, so
\* the direction is the parameter tie
round2(n, d, tie) ==
    LET lo == n \div (10 * d)
        rem == n % (10 * d)
    IN  IF 2 * rem < 10 * d THEN 10 * lo
        ELSE IF 2 * rem > 10 * d THEN 10 * (lo + 1)
        ELSE IF tie THEN 10 * (lo + 1) ELSE 10 * lo

\* round(a / b, 2) on Python values
round_div(a, b, tie) ==
    IF a.t = "raise" \/ b.t = "raise" THEN Raised
    ELSE IF a.t \in {"str", "bad"} \/ b.t \in {"str", "bad"} THEN Raised
    ELSE IF a.t = "nan" \/ b.t = "nan" THEN NaN
    ELSE IF b.v = 0 THEN Raised
    ELSE IF b.v < 0 THEN Num(round2(0 - a.v, 0 - b.v, tie))
    ELSE Num(round2(a.v, b.v, tie))

----------------------------------------------------------------------------
(* Inventories, rows and batches *)

EmptyFridge == [n \in {} |-> Num(0)]
Entry(q, p) == [quantity |-> q, unit_price |-> p]

\* d[k] = v
DictSet(d, k, v) == [n \in DOMAIN d \cup {k} |-> IF n = k THEN v ELSE d[n]]

NoRow == [exists |-> FALSE, fridge |-> EmptyFridge]
Row(f) == [exists |-> TRUE, fridge |-> f]

None == [some |-> FALSE, val |-> EmptyFridge]
Some(f) == [some |-> TRUE, val |-> f]

\* item_data of a batch entry: a dict with some of the keys, or not a dict
NotADict == [isdict |-> FALSE, d |-> EmptyFridge]
Item(q, p) == [isdict |-> TRUE, d |-> [quantity |-> q, unit_price |-> p]]
OnlyQuantity(q) == [isdict |-> TRUE, d |-> [k \in {"quantity"} |-> q]]
OnlyPrice(p) == [isdict |-> TRUE, d |-> [k \in {"unit_price"} |-> p]]

ItemDatas ==
    { NotADict, OnlyQuantity(Num(1)), OnlyPrice(Num(3000)),
      Item(Bad, Num(3000)), Item(Num(0), Num(3000)), Item(Num(1), Num(-1000)),
      Item(Num(0), Bad), Item(Num(0), Num(-1000)),
      Item(NaN, Num(3000)), Item(Str(1), Num(3000)),
      Item(Num(1), Num(0)), Item(Num(1), Num(1015)),
      Item(Num(2), Num(3000)), Item(Num(2), Num(5000)) }

BatchEntries == [name : AllNames, data : ItemDatas]

Dict(es) == [isdict |-> TRUE, entries |-> es]
NotADictBatch == [isdict |-> FALSE, entries |-> <<>>]

\* a dict has each key once
DistinctNames(es) ==
    \A i, j \in 1..Len(es) : es[i].name = es[j].name => i = j

Batches ==
    {NotADictBatch} \cup
    { Dict(es) : es \in { s \in UNION { [1..n -> BatchEntries] : n \in 0..MaxBatch } :
                            DistinctNames(s) } }

----------------------------------------------------------------------------
(* FridgeUpdater: validation and merge *)

\* str.strip() on an item name
strip(name) == IF name \in BlankNames THEN "" ELSE name

\* the checks validate_items makes on one entry, in the order it makes them
validate_entry(e) ==
    IF strip(e.name) = "" THEN "invalid_name"
    ELSE IF ~e.data.isdict THEN "item_not_dict"
    ELSE IF ~({"quantity", "unit_price"} \subseteq DOMAIN e.data.d) THEN "missing_keys"
    ELSE IF ~float_ok(e.data.d.quantity) \/ ~float_ok(e.data.d.unit_price)
         THEN "invalid_numeric"
    ELSE IF le0(float(e.data.d.quantity)) THEN "non_positive_quantity"
    ELSE IF lt0(float(e.data.d.unit_price)) THEN "negative_price"
    ELSE "ok"

\* mutant of validate_items: the errors are collected and the last one is
\* raised after the loop
validate_items_last(b) ==
    IF ~b.isdict THEN [err |-> "not_dict", at |-> 0]
    ELSE IF Len(b.entries) = 0 THEN [err |-> "empty", at |-> 0]
    ELSE LET bad == { i \in 1..Len(b.entries) : validate_entry(b.entries[i]) # "ok" }
         IN  IF bad = {} THEN [err |-> "ok", at |-> 0]
             ELSE LET i == CHOOSE k \in bad : \A j \in bad : k >= j
                  IN  [err |-> validate_entry(b.entries[i]), at |-> i]

\* validate_items: "ok", or the first error met and the index of its entry
validate_items(b) ==
    IF ~b.isdict THEN [err |-> "not_dict", at |-> 0]
    ELSE IF Len(b.entries) = 0 THEN [err |-> "empty", at |-> 0]
    ELSE LET bad == { i \in 1..Len(b.entries) : validate_entry(b.entries[i]) # "ok" }
         IN  IF bad = {} THEN [err |-> "ok", at |-> 0]
             ELSE LET i == CHOOSE k \in bad : \A j \in bad : k <= j
                  IN  [err |-> validate_entry(b.entries[i]), at |-> i]

\* mutant of calculate_weighted_average_price: the quotient is returned
\* without round(..., 2)
calculate_weighted_average_price_unrounded(existing_item, new_item, tie) ==
    LET total_qty == add(existing_item.quantity, new_item.quantity)
        total_value == add(mul(existing_item.quantity, existing_item.unit_price),
                           mul(new_item.quantity, new_item.unit_price))
    IN  IF total_qty.t = "num" /\ total_value.t = "num" /\ total_qty.v > 0
        THEN Num(total_value.v \div total_qty.v)
        ELSE round_div(total_value, total_qty, tie)

\* mutant of calculate_weighted_average_price: the total value is divided
\* by the new quantity instead of the total quantity
calculate_weighted_average_price_by_new_qty(existing_item, new_item, tie) ==
    LET total_value == add(mul(existing_item.quantity, existing_item.unit_price),
                           mul(new_item.quantity, new_item.unit_price))
    IN  round_div(total_value, new_item.quantity, tie)

\* calculate_weighted_average_price: existing_item is read when the call is
\* made, which in merge_items is after its quantity was increased
calculate_weighted_average_price(existing_item, new_item, tie) ==
    LET existing_qty == existing_item.quantity
        existing_price == existing_item.unit_price
        new_qty == new_item.quantity
        new_price == new_item.unit_price
        total_qty == add(existing_qty, new_qty)
        total_value == add(mul(existing_qty, existing_price), mul(new_qty, new_price))
    IN  round_div(total_value, total_qty, tie)

\* mutant of merge_one: a new item keeps its price as given, not rounded
merge_one_unrounded(fr, e, tie) ==
    LET item_data == e.data.d IN
    IF e.name \in DOMAIN fr
    THEN LET q == add(fr[e.name].quantity, item_data.quantity)
             p == calculate_weighted_average_price(
                      Entry(q, fr[e.name].unit_price), item_data, tie)
         IN  IF q.t = "raise" \/ p.t = "raise"
             THEN [raised |-> TRUE, fridge |-> fr]
             ELSE [raised |-> FALSE, fridge |-> DictSet(fr, e.name, Entry(q, p))]
    ELSE [raised |-> FALSE,
          fridge |-> DictSet(fr, e.name,
                        Entry(item_data.quantity, float(item_data.unit_price)))]

\* one iteration of the loop of merge_items on the dict fr
merge_one(fr, e, tie) ==
    LET item_data == e.data.d IN
    IF e.name \in DOMAIN fr
    THEN LET q == add(fr[e.name].quantity, item_data.quantity)
             p == calculate_weighted_average_price(
                      Entry(q, fr[e.name].unit_price), item_data, tie)
         IN  IF q.t = "raise" \/ p.t = "raise"
             THEN [raised |-> TRUE, fridge |-> fr]
             ELSE [raised |-> FALSE, fridge |-> DictSet(fr, e.name, Entry(q, p))]
    ELSE [raised |-> FALSE,
          fridge |-> DictSet(fr, e.name,
                        Entry(item_data.quantity,
                              round_div(float(item_data.unit_price), Num(1), tie)))]

\* mutant of merge_loop: the return statement is inside the branch that
\* updates an existing item
RECURSIVE merge_loop_early_return(_, _, _, _)
merge_loop_early_return(fr, es, i, tie) ==
    IF i > Len(es) THEN [raised |-> FALSE, fridge |-> fr]
    ELSE LET r == merge_one(fr, es[i], tie)
         IN  IF r.raised \/ es[i].name \in DOMAIN fr THEN r
             ELSE merge_loop_early_return(r.fridge, es, i + 1, tie)

RECURSIVE merge_loop(_, _, _, _)
merge_loop(fr, es, i, tie) ==
    IF i > Len(es) THEN [raised |-> FALSE, fridge |-> fr]
    ELSE LET r == merge_one(fr, es[i], tie)
         IN  IF r.raised THEN r ELSE merge_loop(r.fridge, es, i + 1, tie)

\* mutant of merge_items: the result starts as an empty dict instead of a
\* copy of current_fridge
merge_items_fresh(current, new_items, tie) ==
    LET r == merge_loop(EmptyFridge, new_items.entries, 1, tie)
    IN  [raised |-> r.raised, updated |-> r.fridge, current |-> current]

\* merge_items: the returned dict, whether it raised, and current_fridge as
\* the call leaves it (the copy is shallow: the entries of current_fridge
\* are the entries of the result)
merge_items(current, new_items, tie) ==
    LET r == merge_loop(current, new_items.entries, 1, tie)
    IN  [raised |-> r.raised,
         updated |-> r.fridge,
         current |-> [n \in DOMAIN current |-> r.fridge[n]]]

----------------------------------------------------------------------------
(* DatabaseManager.get_cursor and the FridgeManager gateway *)

FailPoints == {"none", "connect", "cursor", "execute", "commit"}

\* mutant of cursor_trace: the except branch logs and re-raises without
\* conn.rollback()
cursor_trace_no_rollback(fail) ==
    IF fail = "connect" THEN <<"getconn_raised">>
    ELSE IF fail = "cursor" THEN <<"getconn", "cursor_raised", "putconn">>
    ELSE IF fail = "execute"
         THEN <<"getconn", "cursor", "body_raised", "close", "putconn">>
    ELSE IF fail = "commit"
         THEN <<"getconn", "cursor", "body", "commit_raised", "close", "putconn">>
    ELSE <<"getconn", "cursor", "body", "commit", "close", "putconn">>

\* the calls get_cursor makes on the pool, the connection and the cursor,
\* in order, for a body that fails at point fail
cursor_trace(fail) ==
    IF fail = "connect" THEN <<"getconn_raised">>
    ELSE IF fail = "cursor" THEN <<"getconn", "cursor_raised", "rollback", "putconn">>
    ELSE IF fail = "execute"
         THEN <<"getconn", "cursor", "body_raised", "rollback", "close", "putconn">>
    ELSE IF fail = "commit"
         THEN <<"getconn", "cursor", "body", "commit_raised", "rollback", "close", "putconn">>
    ELSE <<"getconn", "cursor", "body", "commit", "close", "putconn">>

Count(tr, ev) == Cardinality({ i \in 1..Len(tr) : tr[i] = ev })

\* mutant of get_cursor: return_connection is the last statement of the try
\* block instead of the finally block
get_cursor_no_finally(fail) ==
    [entered |-> fail \notin {"connect", "cursor"},
     committed |-> fail = "none",
     rollback |-> fail \in {"cursor", "execute", "commit"},
     acquired |-> fail # "connect",
     released |-> fail = "none"]

\* get_cursor as a context manager, for a body that fails at point fail:
\* whether the body was entered, whether its statement was committed,
\* whether rollback was called, whether a connection was taken from the
\* pool and whether it went back
get_cursor(fail) ==
    [entered |-> fail \notin {"connect", "cursor"},
     committed |-> fail = "none",
     rollback |-> Count(cursor_trace(fail), "rollback") = 1,
     acquired |-> Count(cursor_trace(fail), "getconn") = 1,
     released |-> Count(cursor_trace(fail), "putconn") = 1]

\* the pool's count of connections in use after one use of get_cursor
pool_after(n, fail) ==
    n + (IF get_cursor(fail).acquired THEN 1 ELSE 0)
      - (IF get_cursor(fail).released THEN 1 ELSE 0)

\* psycopg2.extras.Json(fridge_data) sent to a json column: the token NaN is
\* not valid JSON, so the statement fails
json_ok(f) == \A n \in DOMAIN f : f[n].quantity.t # "nan" /\ f[n].unit_price.t # "nan"

\* mutant of get_fridge_by_id: an empty fridge is taken for a missing one
get_fridge_by_id_falsy(st, u, fail) ==
    IF ~get_cursor(fail).committed THEN None
    ELSE IF st[u].exists /\ st[u].fridge # EmptyFridge THEN Some(st[u].fridge)
    ELSE None

get_fridge_by_id(st, u, fail) ==
    IF ~get_cursor(fail).committed THEN None
    ELSE IF st[u].exists THEN Some(st[u].fridge)
    ELSE None

\* mutant of create_empty_fridge: the insert overwrites on conflict
create_empty_fridge_upsert(st, u, fail) ==
    IF ~get_cursor(fail).committed THEN [store |-> st, ret |-> FALSE]
    ELSE [store |-> [st EXCEPT ![u] = Row(EmptyFridge)], ret |-> TRUE]

create_empty_fridge(st, u, fail) ==
    IF ~get_cursor(fail).committed THEN [store |-> st, ret |-> FALSE]
    ELSE [store |-> IF st[u].exists THEN st ELSE [st EXCEPT ![u] = Row(EmptyFridge)],
          ret |-> TRUE]

\* mutant of update_fridge_contents: the statement takes effect when it ran,
\* also when the commit then fails
update_fridge_contents_autocommit(st, u, fridge_data, fail) ==
    IF ~get_cursor(fail).entered \/ fail = "execute" \/ ~json_ok(fridge_data)
    THEN [store |-> st, ret |-> FALSE]
    ELSE [store |-> IF st[u].exists THEN [st EXCEPT ![u] = Row(fridge_data)] ELSE st,
          ret |-> get_cursor(fail).committed]

\* mutant of update_fridge_contents: the new entries are written over the
\* stored ones (fridge = fridge || new), the others stay
update_fridge_contents_patch(st, u, fridge_data, fail) ==
    IF ~get_cursor(fail).committed \/ ~json_ok(fridge_data)
    THEN [store |-> st, ret |-> FALSE]
    ELSE [store |-> IF st[u].exists
                    THEN [st EXCEPT ![u] =
                            Row([n \in DOMAIN st[u].fridge \cup DOMAIN fridge_data |->
                                   IF n \in DOMAIN fridge_data THEN fridge_data[n]
                                   ELSE st[u].fridge[n]])]
                    ELSE st,
          ret |-> TRUE]

update_fridge_contents(st, u, fridge_data, fail) ==
    IF ~get_cursor(fail).committed \/ ~json_ok(fridge_data)
    THEN [store |-> st, ret |-> FALSE]
    ELSE [store |-> IF st[u].exists THEN [st EXCEPT ![u] = Row(fridge_data)] ELSE st,
          ret |-> TRUE]

----------------------------------------------------------------------------
(* State *)

FullFridge == [n \in GoodNames |->
                 IF n = "milk" THEN Entry(Num(2), Num(3000)) ELSE Entry(Num(3), Num(1000))]

InitRows == {NoRow, Row(EmptyFridge), Row(FullFridge)}
InitStores == [Uids -> InitRows]

\* the batches the concurrent callers draw from
CallBatches ==
    { b \in Batches :
        /\ b.isdict
        /\ Len(b.entries) <= 1
        /\ \A i \in 1..Len(b.entries) :
              /\ b.entries[i].name \in GoodNames
              /\ b.entries[i].data \in {Item(Num(2), Num(5000)), Item(Num(1), Num(1015))} }

NoResult == [ok |-> FALSE, msg |-> "none", detail |-> "none", n |-> 0]
NoOp == [op |-> "none", caller |-> "none", uid |-> "u1", before |-> NoRow,
         ok |-> FALSE, val |-> None, failed |-> FALSE, point |-> "none"]

Op(name, c, u, ok, val, fail) ==
    [op |-> name, caller |-> c, uid |-> u, before |-> store[u],
     ok |-> ok, val |-> val, failed |-> fail # "none", point |-> fail]

Logged(c, name, fail) == Append(ops[c], [op |-> name, failed |-> fail # "none"])

\* the threads that enter get_db_cursor for the first time
Threads == {"t1", "t2"}

\* dbconnect before any call: _db_manager is None (0), no DatabaseManager
\* and no pool was created; manager[t] is the local manager of thread t,
\* pool[m] the attribute _pool of the manager m (0 for None), conn[t] the
\* pool that gave t its connection
NoDb ==
    [tpc |-> [t \in Threads |-> "idle"],
     global |-> 0,
     managers |-> 0,
     manager |-> [t \in Threads |-> 0],
     pool |-> [m \in 1..Cardinality(Threads) |-> 0],
     pools |-> 0,
     conn |-> [t \in Threads |-> 0]]

Idle ==
    /\ pc = [c \in Callers |-> "idle"]
    /\ uid = [c \in Callers |-> "u1"]
    /\ items = [c \in Callers |-> Dict(<<>>)]
    /\ current_fridge = [c \in Callers |-> None]
    /\ updated_fridge = [c \in Callers |-> EmptyFridge]
    /\ result = [c \in Callers |-> NoResult]
    /\ ops = [c \in Callers |-> <<>>]
    /\ last = NoOp
    /\ pool_out = 0
    /\ db = NoDb

Init ==
    /\ store \in InitStores
    /\ store0 = store
    /\ Idle

----------------------------------------------------------------------------
(* FridgeUpdater.update_fridge, one action per step *)

\* a caller enters update_fridge(u, b)
Call(c, u, b) ==
    /\ pc[c] = "idle"
    /\ pc' = [pc EXCEPT ![c] = "validate"]
    /\ uid' = [uid EXCEPT ![c] = u]
    /\ items' = [items EXCEPT ![c] = b]
    /\ UNCHANGED <<store, store0, current_fridge, updated_fridge, result, ops, last,
                   pool_out, db>>

\* mutant of Validate: the converted numbers are written back into the
\* batch, item_data["quantity"] = float(item_data["quantity"])
Validate_normalizes(c) ==
    /\ pc[c] = "validate"
    /\ LET v == validate_items(items[c]) IN
       IF v.err = "ok"
       THEN /\ pc' = [pc EXCEPT ![c] = "fetch"]
            /\ items' = [items EXCEPT ![c] =
                  Dict([i \in 1..Len(items[c].entries) |->
                          [name |-> items[c].entries[i].name,
                           data |-> Item(float(items[c].entries[i].data.d.quantity),
                                         float(items[c].entries[i].data.d.unit_price))]])]
            /\ UNCHANGED result
       ELSE /\ pc' = [pc EXCEPT ![c] = "done"]
            /\ result' = [result EXCEPT ![c] =
                            [ok |-> FALSE, msg |-> "validation", detail |-> v.err, n |-> 0]]
            /\ UNCHANGED items
    /\ UNCHANGED <<store, store0, uid, current_fridge, updated_fridge, ops, last,
                   pool_out, db>>

\* mutant of Validate: the FridgeUpdateError is logged and the call goes on
Validate_ignored(c) ==
    /\ pc[c] = "validate"
    /\ pc' = [pc EXCEPT ![c] = "fetch"]
    /\ UNCHANGED <<store, store0, uid, items, current_fridge, updated_fridge,
                   result, ops, last, pool_out, db>>

\* self.validate_items(items); a FridgeUpdateError ends the call
Validate(c) ==
    /\ pc[c] = "validate"
    /\ LET v == validate_items(items[c]) IN
       IF v.err = "ok"
       THEN /\ pc' = [pc EXCEPT ![c] = "fetch"]
            /\ UNCHANGED result
       ELSE /\ pc' = [pc EXCEPT ![c] = "done"]
            /\ result' = [result EXCEPT ![c] =
                            [ok |-> FALSE, msg |-> "validation", detail |-> v.err, n |-> 0]]
    /\ UNCHANGED <<store, store0, uid, items, current_fridge, updated_fridge, ops, last,
                   pool_out, db>>

\* current_fridge = self.fridge_manager.get_fridge_by_id(uid)
Fetch(c) ==
    /\ pc[c] = "fetch"
    /\ \E fail \in FailPoints :
         LET r == get_fridge_by_id(store, uid[c], fail) IN
         /\ current_fridge' = [current_fridge EXCEPT ![c] = r]
         /\ pc' = [pc EXCEPT ![c] = IF r.some THEN "merge" ELSE "create"]
         /\ ops' = [ops EXCEPT ![c] = Logged(c, "fetch", fail)]
         /\ last' = Op("get", c, uid[c], r.some, r, fail)
         /\ pool_out' = pool_after(pool_out, fail) /\ UNCHANGED db
    /\ UNCHANGED <<store, store0, uid, items, updated_fridge, result>>

\* mutant of Create: the return value of create_empty_fridge is not tested
Create_unchecked(c) ==
    /\ pc[c] = "create"
    /\ \E fail \in FailPoints :
         LET r == create_empty_fridge(store, uid[c], fail) IN
         /\ store' = r.store
         /\ ops' = [ops EXCEPT ![c] = Logged(c, "create", fail)]
         /\ last' = Op("create", c, uid[c], r.ret, None, fail)
         /\ pool_out' = pool_after(pool_out, fail) /\ UNCHANGED db
         /\ current_fridge' = [current_fridge EXCEPT ![c] = Some(EmptyFridge)]
         /\ pc' = [pc EXCEPT ![c] = "merge"]
    /\ UNCHANGED <<store0, uid, items, updated_fridge, result>>

\* if current_fridge is None: create_empty_fridge(uid), current_fridge = {}
Create(c) ==
    /\ pc[c] = "create"
    /\ \E fail \in FailPoints :
         LET r == create_empty_fridge(store, uid[c], fail) IN
         /\ store' = r.store
         /\ ops' = [ops EXCEPT ![c] = Logged(c, "create", fail)]
         /\ last' = Op("create", c, uid[c], r.ret, None, fail)
         /\ pool_out' = pool_after(pool_out, fail) /\ UNCHANGED db
         /\ IF r.ret
            THEN /\ current_fridge' = [current_fridge EXCEPT ![c] = Some(EmptyFridge)]
                 /\ pc' = [pc EXCEPT ![c] = "merge"]
                 /\ UNCHANGED result
            ELSE /\ pc' = [pc EXCEPT ![c] = "done"]
                 /\ result' = [result EXCEPT ![c] =
                        [ok |-> FALSE, msg |-> "create_failed", detail |-> "none", n |-> 0]]
                 /\ UNCHANGED current_fridge
    /\ UNCHANGED <<store0, uid, items, updated_fridge>>

\* mutant of Merge: the batch is written over the inventory,
\* updated_fridge.update(items), instead of being merged into it
Merge_overwrites(c) ==
    /\ pc[c] = "merge"
    /\ LET cur == current_fridge[c].val
           es == items[c].entries
           names == { es[i].name : i \in 1..Len(es) }
           data(n) == es[CHOOSE i \in 1..Len(es) : es[i].name = n].data.d
       IN  /\ updated_fridge' = [updated_fridge EXCEPT ![c] =
                 [n \in DOMAIN cur \cup names |->
                    IF n \in names THEN Entry(data(n).quantity, data(n).unit_price)
                    ELSE cur[n]]]
           /\ pc' = [pc EXCEPT ![c] = "replace"]
    /\ UNCHANGED <<store, store0, uid, items, current_fridge, result, ops, last,
                   pool_out, db>>

\* updated_fridge = self.merge_items(current_fridge, items); an exception
\* ends the call with "Unexpected error"
Merge(c) ==
    /\ pc[c] = "merge"
    /\ \E tie \in BOOLEAN :
         LET m == merge_items(current_fridge[c].val, items[c], tie) IN
         IF m.raised
         THEN /\ pc' = [pc EXCEPT ![c] = "done"]
              /\ result' = [result EXCEPT ![c] =
                     [ok |-> FALSE, msg |-> "unexpected", detail |-> "none", n |-> 0]]
              /\ UNCHANGED <<current_fridge, updated_fridge>>
         ELSE /\ pc' = [pc EXCEPT ![c] = "replace"]
              /\ updated_fridge' = [updated_fridge EXCEPT ![c] = m.updated]
              /\ current_fridge' = [current_fridge EXCEPT ![c] = Some(m.current)]
              /\ UNCHANGED result
    /\ UNCHANGED <<store, store0, uid, items, ops, last, pool_out, db>>

\* mutant of Replace: the success message counts the items of the resulting
\* inventory, len(updated_fridge)
Replace_counts_inventory(c) ==
    /\ pc[c] = "replace"
    /\ \E fail \in FailPoints :
         LET r == update_fridge_contents(store, uid[c], updated_fridge[c], fail) IN
         /\ store' = r.store
         /\ ops' = [ops EXCEPT ![c] = Logged(c, "replace", fail)]
         /\ last' = Op("replace", c, uid[c], r.ret, Some(updated_fridge[c]), fail)
         /\ pool_out' = pool_after(pool_out, fail) /\ UNCHANGED db
         /\ result' = [result EXCEPT ![c] =
               IF r.ret
               THEN [ok |-> TRUE, msg |-> "success", detail |-> "none",
                     n |-> Cardinality(DOMAIN updated_fridge[c])]
               ELSE [ok |-> FALSE, msg |-> "update_failed", detail |-> "none", n |-> 0]]
    /\ pc' = [pc EXCEPT ![c] = "done"]
    /\ UNCHANGED <<store0, uid, items, current_fridge, updated_fridge>>

\* mutant of Replace: the uid is kept on the shared FridgeUpdater instance,
\* so the replace goes to the uid of the latest gateway operation
Replace_shared_uid(c) ==
    /\ pc[c] = "replace"
    /\ \E fail \in FailPoints :
         LET r == update_fridge_contents(store, last.uid, updated_fridge[c], fail) IN
         /\ store' = r.store
         /\ ops' = [ops EXCEPT ![c] = Logged(c, "replace", fail)]
         /\ last' = Op("replace", c, last.uid, r.ret, Some(updated_fridge[c]), fail)
         /\ pool_out' = pool_after(pool_out, fail) /\ UNCHANGED db
         /\ result' = [result EXCEPT ![c] =
               IF r.ret
               THEN [ok |-> TRUE, msg |-> "success", detail |-> "none",
                     n |-> Len(items[c].entries)]
               ELSE [ok |-> FALSE, msg |-> "update_failed", detail |-> "none", n |-> 0]]
    /\ pc' = [pc EXCEPT ![c] = "done"]
    /\ UNCHANGED <<store0, uid, items, current_fridge, updated_fridge>>

\* update_fridge_contents(uid, updated_fridge), then the return
Replace(c) ==
    /\ pc[c] = "replace"
    /\ \E fail \in FailPoints :
         LET r == update_fridge_contents(store, uid[c], updated_fridge[c], fail) IN
         /\ store' = r.store
         /\ ops' = [ops EXCEPT ![c] = Logged(c, "replace", fail)]
         /\ last' = Op("replace", c, uid[c], r.ret, Some(updated_fridge[c]), fail)
         /\ pool_out' = pool_after(pool_out, fail) /\ UNCHANGED db
         /\ result' = [result EXCEPT ![c] =
               IF r.ret
               THEN [ok |-> TRUE, msg |-> "success", detail |-> "none",
                     n |-> Len(items[c].entries)]
               ELSE [ok |-> FALSE, msg |-> "update_failed", detail |-> "none", n |-> 0]]
    /\ pc' = [pc EXCEPT ![c] = "done"]
    /\ UNCHANGED <<store0, uid, items, current_fridge, updated_fridge>>

----------------------------------------------------------------------------
(* The gateway used directly by other clients *)

\* mutant of GetFridge: get-or-create, a uid that is not found gets an
\* empty row
GetFridge_creates(u) ==
    /\ \E fail \in FailPoints :
         LET r == get_fridge_by_id(store, u, fail) IN
         /\ last' = Op("get", "client", u, r.some, r, fail)
         /\ pool_out' = pool_after(pool_out, fail) /\ UNCHANGED db
         /\ store' = IF r.some \/ fail # "none" THEN store
                     ELSE [store EXCEPT ![u] = Row(EmptyFridge)]
    /\ UNCHANGED <<store0, pc, uid, items, current_fridge, updated_fridge,
                   result, ops>>

\* get_fridge_by_id(u), as main.py calls it
GetFridge(u) ==
    /\ \E fail \in FailPoints :
         LET r == get_fridge_by_id(store, u, fail) IN
         /\ last' = Op("get", "client", u, r.some, r, fail)
         /\ pool_out' = pool_after(pool_out, fail) /\ UNCHANGED db
    /\ UNCHANGED <<store, store0, pc, uid, items, current_fridge, updated_fridge,
                   result, ops>>

\* create_empty_fridge(u)
CreateFridge(u) ==
    /\ \E fail \in FailPoints :
         LET r == create_empty_fridge(store, u, fail) IN
         /\ store' = r.store
         /\ last' = Op("create", "client", u, r.ret, None, fail)
         /\ pool_out' = pool_after(pool_out, fail) /\ UNCHANGED db
    /\ UNCHANGED <<store0, pc, uid, items, current_fridge, updated_fridge, result, ops>>

\* the inventories a client passes to update_fridge_contents
ClientFridges ==
    { EmptyFridge, FullFridge, [n \in {"milk"} |-> Entry(Num(1), Num(1010))] }

\* update_fridge_contents(u, f)
UpdateContents(u, f) ==
    /\ \E fail \in FailPoints :
         LET r == update_fridge_contents(store, u, f, fail) IN
         /\ store' = r.store
         /\ last' = Op("replace", "client", u, r.ret, Some(f), fail)
         /\ pool_out' = pool_after(pool_out, fail) /\ UNCHANGED db
    /\ UNCHANGED <<store0, pc, uid, items, current_fridge, updated_fridge, result, ops>>

----------------------------------------------------------------------------
(* dbconnect: the global manager and its pool, one action per statement
   between which another thread can run *)

Others == <<store, store0, pc, uid, items, current_fridge, updated_fridge,
            result, ops, last, pool_out>>

Goto(t, label) == [db.tpc EXCEPT ![t] = label]

\* a thread enters get_db_cursor
GetDbCursor(t) ==
    /\ db.tpc[t] = "idle"
    /\ db' = [db EXCEPT !.tpc = Goto(t, "check_manager")]
    /\ UNCHANGED Others

\* get_db_manager: if _db_manager is None
CheckManager(t) ==
    /\ db.tpc[t] = "check_manager"
    /\ db' = [db EXCEPT !.tpc = Goto(t, IF db.global = 0 THEN "new_manager"
                                        ELSE "return_manager")]
    /\ UNCHANGED Others

\* get_db_manager: _db_manager = DatabaseManager(config)
NewManager(t) ==
    /\ db.tpc[t] = "new_manager"
    /\ db' = [db EXCEPT !.managers = db.managers + 1,
                        !.global = db.managers + 1,
                        !.tpc = Goto(t, "return_manager")]
    /\ UNCHANGED Others

\* get_db_manager: return _db_manager
ReturnManager(t) ==
    /\ db.tpc[t] = "return_manager"
    /\ db' = [db EXCEPT !.manager = [db.manager EXCEPT ![t] = db.global],
                        !.tpc = Goto(t, "check_pool")]
    /\ UNCHANGED Others

\* get_connection: if not self._pool
CheckPool(t) ==
    /\ db.tpc[t] = "check_pool"
    /\ db' = [db EXCEPT !.tpc = Goto(t, IF db.pool[db.manager[t]] = 0 THEN "initialize_pool"
                                        ELSE "getconn")]
    /\ UNCHANGED Others

\* initialize_pool: self._pool = SimpleConnectionPool(...), or the
\* exception of the constructor, which ends the call
InitializePool(t) ==
    /\ db.tpc[t] = "initialize_pool"
    /\ \E ok \in BOOLEAN :
         db' = IF ok
               THEN [db EXCEPT !.pools = db.pools + 1,
                               !.pool = [db.pool EXCEPT ![db.manager[t]] = db.pools + 1],
                               !.tpc = Goto(t, "getconn")]
               ELSE [db EXCEPT !.tpc = Goto(t, "done")]
    /\ UNCHANGED Others

\* get_connection: return self._pool.getconn()
GetConn(t) ==
    /\ db.tpc[t] = "getconn"
    /\ db' = [db EXCEPT !.conn = [db.conn EXCEPT ![t] = db.pool[db.manager[t]]],
                        !.tpc = Goto(t, "done")]
    /\ UNCHANGED Others

----------------------------------------------------------------------------
(* Specifications *)

\* concurrent callers of update_fridge, one call each
Next ==
    \/ \E c \in Callers, u \in Uids, b \in CallBatches : Call(c, u, b)
    \/ \E c \in Callers : Validate(c)
    \/ \E c \in Callers : Fetch(c)
    \/ \E c \in Callers : Create(c)
    \/ \E c \in Callers : Merge(c)
    \/ \E c \in Callers : Replace(c)

Spec == Init /\ [][Next]_vars

\* a client calling the gateway operations one after another
GatewayNext ==
    \/ \E u \in Uids : GetFridge(u)
    \/ \E u \in Uids : CreateFridge(u)
    \/ \E u \in Uids, f \in ClientFridges : UpdateContents(u, f)

GatewaySpec == Init /\ [][GatewayNext]_vars

\* threads making their first database call at the same time
PoolInit ==
    /\ store = [u \in Uids |-> NoRow]
    /\ store0 = store
    /\ Idle

PoolNext ==
    \/ \E t \in Threads : GetDbCursor(t)
    \/ \E t \in Threads : CheckManager(t)
    \/ \E t \in Threads : NewManager(t)
    \/ \E t \in Threads : ReturnManager(t)
    \/ \E t \in Threads : CheckPool(t)
    \/ \E t \in Threads : InitializePool(t)
    \/ \E t \in Threads : GetConn(t)

PoolSpec == PoolInit /\ [][PoolNext]_vars

\* one call update_fridge("u1", b) by caller c1, alone, for every batch b
UnitStores == { s \in InitStores : s["u2"] = Row(FullFridge) }

UnitInit ==
    /\ store \in UnitStores
    /\ store0 = store
    /\ \E b \in Batches :
         /\ pc = [c \in Callers |-> IF c = "c1" THEN "validate" ELSE "idle"]
         /\ items = [c \in Callers |-> IF c = "c1" THEN b ELSE Dict(<<>>)]
    /\ uid = [c \in Callers |-> "u1"]
    /\ current_fridge = [c \in Callers |-> None]
    /\ updated_fridge = [c \in Callers |-> EmptyFridge]
    /\ result = [c \in Callers |-> NoResult]
    /\ ops = [c \in Callers |-> <<>>]
    /\ last = NoOp
    /\ pool_out = 0
    /\ db = NoDb

UnitNext ==
    \/ Validate("c1")
    \/ Fetch("c1")
    \/ Create("c1")
    \/ Merge("c1")
    \/ Replace("c1")

UnitSpec == UnitInit /\ [][UnitNext]_vars

----------------------------------------------------------------------------
(* Helpers of the properties *)

BatchNames(b) == { b.entries[i].name : i \in 1..Len(b.entries) }

NoFault(c) == \A i \in 1..Len(ops[c]) : ~ops[c][i].failed

AllReturned == \A c \in Callers : pc[c] = "done"

\* the dict merge_items was given by the call of c1 in UnitSpec: what the
\* fetch returned, or {} after create_empty_fridge
PreMerge == IF last.op = "get" THEN last.val.val ELSE EmptyFridge

\* the batches of the calls cs merged one after another into f
RECURSIVE ApplyAll(_, _, _, _)
ApplyAll(f, cs, ties, i) ==
    IF i > Len(cs) THEN f
    ELSE ApplyAll(merge_items(f, items[cs[i]], ties[i]).updated, cs, ties, i + 1)

\* the inventories that the successful calls on u give when they run one
\* after another, in any order
SequentialOutcomes(u) ==
    LET S == { c \in Callers : uid[c] = u /\ result[c].ok }
        n == Cardinality(S)
        Orders == { cs \in [1..n -> S] : \A i, j \in 1..n : cs[i] = cs[j] => i = j }
    IN  { ApplyAll(store0[u].fridge, cs, ties, 1) : cs \in Orders, ties \in [1..n -> BOOLEAN] }

----------------------------------------------------------------------------
(* Properties *)

\* C1: when concurrent update_fridge calls on one uid with pairwise disjoint
\* item names have all returned success, the stored inventory holds every
\* item of every batch and every item stored before, with its quantity.
C1_NoItemLost ==
    ( /\ AllReturned
      /\ \A c \in Callers : result[c].ok /\ NoFault(c) /\ uid[c] = uid["c1"]
      /\ \A c, d \in Callers : c # d => BatchNames(items[c]) \cap BatchNames(items[d]) = {} )
    => LET u == uid["c1"]
           f == store[u].fridge
           f0 == store0[u].fridge
       IN  /\ \A n \in DOMAIN f0 : n \in DOMAIN f
           /\ \A c \in Callers : \A i \in 1..Len(items[c].entries) :
                LET e == items[c].entries[i] IN
                /\ e.name \in DOMAIN f
                /\ f[e.name].quantity =
                      IF e.name \in DOMAIN f0
                      THEN add(f0[e.name].quantity, e.data.d.quantity)
                      ELSE e.data.d.quantity

\* C2: concurrent update_fridge calls on one uid are serialized: when all
\* have returned, the stored inventory is what the successful batches give
\* when applied one after another in some order.
C2_Serialized ==
    ( /\ AllReturned
      /\ \A c \in Callers : NoFault(c) /\ uid[c] = uid["c1"]
      /\ \E c \in Callers : result[c].ok )
    => store[uid["c1"]].fridge \in SequentialOutcomes(uid["c1"])

C4_WeightedAverage ==
    ( pc["c1"] = "replace" /\ last.op = "get" )
    => \A i \in 1..Len(items["c1"].entries) :
         LET e == items["c1"].entries[i]
             new == e.data.d
             old == PreMerge[e.name]
             got == updated_fridge["c1"][e.name]
         IN  ( /\ e.name \in DOMAIN PreMerge
               /\ new.quantity.t = "num" /\ new.unit_price.t = "num" )
             => /\ got.quantity = Num(old.quantity.v + new.quantity.v)
                /\ \E tie \in BOOLEAN :
                     got.unit_price =
                        Num(round2(old.quantity.v * old.unit_price.v
                                     + new.quantity.v * new.unit_price.v,
                                   old.quantity.v + new.quantity.v, tie))

\* C5: for a batch entry whose name is absent from the current inventory,
\* merge_items inserts the entry's quantity and its unit_price rounded to 2
\* decimals; merging into the empty inventory gives exactly the names of
\* the batch.
C5_NewItemInserted ==
    pc["c1"] = "replace"
    => /\ \A i \in 1..Len(items["c1"].entries) :
            LET e == items["c1"].entries[i]
                new == e.data.d
                got == updated_fridge["c1"][e.name]
            IN  e.name \notin DOMAIN PreMerge
                => /\ e.name \in DOMAIN updated_fridge["c1"]
                   /\ got.quantity = new.quantity
                   /\ new.unit_price.t = "num"
                        => /\ got.unit_price.t = "num"
                           /\ got.unit_price.v % 10 = 0
                           /\ got.unit_price.v - new.unit_price.v \in -5..5
       /\ PreMerge = EmptyFridge
            => DOMAIN updated_fridge["c1"] = BatchNames(items["c1"])

C5_Witness ==
    /\ pc["c1"] = "replace"
    /\ PreMerge = EmptyFridge
    /\ Len(items["c1"].entries) = 2
    /\ \E i \in 1..2 :
         /\ items["c1"].entries[i].data = Item(Num(1), Num(1015))
         /\ updated_fridge["c1"][items["c1"].entries[i].name].unit_price
               \in {Num(1010), Num(1020)}

\* C6: when validation of the batch fails, update_fridge returns a
\* validation failure without any store access: no fetch, no create, no
\* replace, and the table is unchanged.
C6_ValidationShortCircuits ==
    \A c \in Callers :
       ( pc[c] \notin {"idle", "validate"} /\ validate_items(items[c]).err # "ok" )
       => /\ pc[c] = "done"
          /\ ~result[c].ok
          /\ result[c].msg = "validation"
          /\ ops[c] = <<>>
          /\ store = store0
          /\ last = NoOp

C6_Witness ==
    /\ pc["c1"] = "done"
    /\ result["c1"].msg = "validation"
    /\ result["c1"].detail = "non_positive_quantity"
    /\ store0["u1"] = Row(FullFridge)

\* the batches section 4.1 accepts: at least one entry, and every entry has
\* a non-blank name, both fields, both numbers, quantity > 0, unit_price >= 0
IsNumber(x) == x.t \in {"num", "str"}
SpecValid(b) ==
    /\ b.isdict
    /\ Len(b.entries) >= 1
    /\ \A i \in 1..Len(b.entries) :
         LET e == b.entries[i] IN
         /\ e.name \notin BlankNames
         /\ e.data.isdict
         /\ {"quantity", "unit_price"} \subseteq DOMAIN e.data.d
         /\ IsNumber(e.data.d.quantity) /\ IsNumber(e.data.d.unit_price)
         /\ e.data.d.quantity.v > 0
         /\ e.data.d.unit_price.v >= 0

\* C7: validate_items accepts a batch if and only if it has at least one
\* entry and every entry has a non-blank name and both quantity and
\* unit_price, both numbers, with quantity > 0 and unit_price >= 0.
C7_ValidateIff ==
    pc["c1"] \notin {"idle", "validate"}
    => ( ~(pc["c1"] = "done" /\ result["c1"].msg = "validation") <=> SpecValid(items["c1"]) )

\* C8: get_fridge_by_id returns None only when no row exists for the uid; a
\* failure of the store is not reported as "no record".
C8_NoneOnlyWhenAbsent ==
    ( last.op = "get" /\ ~last.val.some ) => ~last.before.exists

\* C9: get_fridge_by_id tells a missing row from an empty one: when the
\* query succeeds it returns None for a uid without a row and the stored
\* inventory, {} for a row made by create_empty_fridge, for a uid with one.
C9_MissingVersusEmpty ==
    ( last.op = "get" /\ ~last.failed )
    => /\ ~last.before.exists => last.val = None
       /\ last.before.exists => last.val = Some(last.before.fridge)
       /\ last.before = Row(EmptyFridge) => last.val.some /\ last.val.val = EmptyFridge

C9_Witness ==
    /\ last.op = "get" /\ ~last.failed
    /\ store0[last.uid] = NoRow
    /\ last.before = Row(EmptyFridge)
    /\ last.val = Some(EmptyFridge)

\* C10: create_empty_fridge is idempotent: unless the store fails it
\* succeeds; it inserts a row with the empty inventory when there is none
\* and leaves an existing row as it is.
C10_CreateIdempotent ==
    last.op = "create"
    => /\ ~last.failed => last.ok
       /\ last.ok => store[last.uid] =
                        IF last.before.exists THEN last.before ELSE Row(EmptyFridge)
       /\ ~last.ok => store[last.uid] = last.before

C10_Witness ==
    /\ last.op = "create" /\ last.ok
    /\ last.before.exists
    /\ last.before.fridge # EmptyFridge
    /\ last.before.fridge # store0[last.uid].fridge
    /\ store[last.uid] = last.before

\* C11: update_fridge_contents on a uid that has a row overwrites the whole
\* stored inventory: after it returns success the stored inventory is
\* exactly the one passed, and no entry of the previous one survives unless
\* it is in it.
C11_ReplaceOverwrites ==
    ( last.op = "replace" /\ last.ok /\ last.before.exists )
    => /\ store[last.uid] = Row(last.val.val)
       /\ \A n \in DOMAIN last.before.fridge :
            n \notin DOMAIN last.val.val => n \notin DOMAIN store[last.uid].fridge

C11_Witness ==
    /\ last.op = "replace" /\ last.ok
    /\ last.before = Row(FullFridge)
    /\ last.val.val = [n \in {"milk"} |-> Entry(Num(1), Num(1010))]
    /\ DOMAIN store[last.uid].fridge = {"milk"}

\* C12: every gateway operation gives back the connection it took from the
\* pool on every exit path (success, error of the statement, error while
\* the cursor is made, error of the commit): after the call as many
\* connections are checked out as before it.
C12_ConnectionsReturned ==
    /\ pool_out = 0
    /\ last.op # "none"
         => LET tr == cursor_trace(last.point) IN
            /\ Count(tr, "getconn") = Count(tr, "putconn")
            /\ Count(tr, "getconn") = 1 => tr[Len(tr)] = "putconn"

C12_Witness ==
    /\ last.op = "replace"
    /\ last.point = "cursor"
    /\ last.before.exists
    /\ pool_out = 0

\* C13: every entry of every stored inventory has quantity > 0 and
\* unit_price >= 0, after update_fridge calls with arbitrary batches on
\* inventories that satisfy it.
C13_StoredEntriesValid ==
    \A u \in Uids : \A n \in DOMAIN store[u].fridge :
       LET e == store[u].fridge[n] IN
       /\ e.quantity.t = "num" /\ e.quantity.v > 0
       /\ e.unit_price.t = "num" /\ e.unit_price.v >= 0

\* C14: merge_items never removes or zeroes an entry: every name of the
\* current inventory is in the result with a quantity at least its old one,
\* and the names of the result are those of current and batch together.
C14_MergeNeverRemoves ==
    pc["c1"] = "replace"
    => /\ DOMAIN updated_fridge["c1"] = DOMAIN PreMerge \cup BatchNames(items["c1"])
       /\ \A n \in DOMAIN PreMerge :
            /\ n \in DOMAIN updated_fridge["c1"]
            /\ updated_fridge["c1"][n].quantity.t = "num"
            /\ updated_fridge["c1"][n].quantity.v >= PreMerge[n].quantity.v

\* C15: every entry of the current inventory whose name is not in the batch
\* is in the result of merge_items with the same quantity and unit_price.
C15_OthersCarriedOver ==
    pc["c1"] = "replace"
    => \A n \in DOMAIN PreMerge \ BatchNames(items["c1"]) :
          /\ n \in DOMAIN updated_fridge["c1"]
          /\ updated_fridge["c1"][n] = PreMerge[n]

C15_Witness ==
    /\ pc["c1"] = "replace"
    /\ PreMerge = FullFridge
    /\ BatchNames(items["c1"]) = {"milk"}
    /\ updated_fridge["c1"]["eggs"] = FullFridge["eggs"]
    /\ updated_fridge["c1"]["milk"] # FullFridge["milk"]

\* C16: merge_items leaves its arguments unchanged: after it returned,
\* current_fridge has the entries, quantities and prices it had before.
C16_MergeIsPure ==
    pc["c1"] = "replace" => current_fridge["c1"].val = PreMerge

\* the orders in which the entries es of a dict can be iterated
EntryOrders(es) ==
    LET n == Len(es)
        P == { q \in [1..n -> 1..n] : \A i, j \in 1..n : q[i] = q[j] => i = j }
    IN  { [i \in 1..n |-> es[q[i]]] : q \in P }

\* C17: the result of merge_items does not depend on the order in which
\* the entries of the batch are processed: every permutation of the batch
\* gives the same output mapping (and raises when the batch as given does).
C17_OrderIndependent ==
    /\ pc["c1"] = "replace"
         => \A es \in EntryOrders(items["c1"].entries) :
              \E tie \in BOOLEAN :
                 LET m == merge_items(PreMerge, Dict(es), tie) IN
                 ~m.raised /\ m.updated = updated_fridge["c1"]
    /\ ( pc["c1"] = "done" /\ result["c1"].msg = "unexpected" )
         => \A es \in EntryOrders(items["c1"].entries) :
              \A tie \in BOOLEAN : merge_items(PreMerge, Dict(es), tie).raised

C17_Witness ==
    /\ pc["c1"] = "replace"
    /\ PreMerge = FullFridge
    /\ Len(items["c1"].entries) = 2
    /\ items["c1"].entries[1].name = "milk"
    /\ updated_fridge["c1"]["milk"] # FullFridge["milk"]
    /\ updated_fridge["c1"]["eggs"] # FullFridge["eggs"]

\* update_fridge(u, b) run from the store st with no other call in between:
\* the rows of u and the results it can end with, from the merge on
after_fetch(st, u, b, current) ==
    UNION { LET m == merge_items(current, b, tie) IN
            IF m.raised
            THEN { [row |-> st[u],
                    result |-> [ok |-> FALSE, msg |-> "unexpected",
                                detail |-> "none", n |-> 0]] }
            ELSE { LET r == update_fridge_contents(st, u, m.updated, fail) IN
                   [row |-> r.store[u],
                    result |-> IF r.ret
                               THEN [ok |-> TRUE, msg |-> "success", detail |-> "none",
                                     n |-> Len(b.entries)]
                               ELSE [ok |-> FALSE, msg |-> "update_failed",
                                     detail |-> "none", n |-> 0]]
                   : fail \in FailPoints }
          : tie \in BOOLEAN }

\* ... from the fetch on
after_validate(st, u, b) ==
    UNION { LET g == get_fridge_by_id(st, u, f1) IN
            IF g.some THEN after_fetch(st, u, b, g.val)
            ELSE UNION { LET r == create_empty_fridge(st, u, f2) IN
                         IF r.ret THEN after_fetch(r.store, u, b, EmptyFridge)
                         ELSE { [row |-> r.store[u],
                                 result |-> [ok |-> FALSE, msg |-> "create_failed",
                                             detail |-> "none", n |-> 0]] }
                       : f2 \in FailPoints }
          : f1 \in FailPoints }

\* ... the whole call
update_fridge_alone(st, u, b) ==
    LET v == validate_items(b) IN
    IF v.err # "ok"
    THEN { [row |-> st[u],
            result |-> [ok |-> FALSE, msg |-> "validation", detail |-> v.err, n |-> 0]] }
    ELSE after_validate(st, u, b)

\* the callers other than c are idle or work on another uid
AloneOnUid(c) == \A d \in Callers \ {c} : pc[d] = "idle" \/ uid[d] # uid[c]

C19_NoRecordAfterFailure ==
    ( pc["c1"] = "done" /\ ~result["c1"].ok /\ ~store0[uid["c1"]].exists )
       => ~store[uid["c1"]].exists

\* C20: when the fetch gives None and create_empty_fridge then fails, the
\* call ends at once with the store failure "Failed to create new fridge for user", no
\* replace is made and the store is as it was before the call.
C20_CreateFailureStops ==
    /\ ( Len(ops["c1"]) >= 2 /\ ops["c1"][2].op = "create" /\ ops["c1"][2].failed )
         => /\ pc["c1"] = "done"
            /\ result["c1"] = [ok |-> FALSE, msg |-> "create_failed",
                               detail |-> "none", n |-> 0]
            /\ Len(ops["c1"]) = 2
            /\ ops["c1"][1].op = "fetch"
            /\ store = store0
    /\ result["c1"].msg = "create_failed"
         => /\ Len(ops["c1"]) = 2
            /\ ops["c1"][2].op = "create" /\ ops["c1"][2].failed

C20_Witness ==
    /\ pc["c1"] = "done"
    /\ result["c1"].msg = "create_failed"
    /\ store0["u1"] = NoRow
    /\ ~ops["c1"][1].failed
    /\ last.op = "create" /\ last.point = "commit"
    /\ Len(items["c1"].entries) = 2

\* C21: on success update_fridge reports the number of distinct item names
\* of the batch, len(items), and it reports success only when the last
\* gateway operation of the call is a replace that committed the merged
\* inventory.
C21_SuccessReport ==
    result["c1"].ok
      => /\ result["c1"].msg = "success"
         /\ result["c1"].n = Cardinality(BatchNames(items["c1"]))
         /\ ops["c1"][Len(ops["c1"])] = [op |-> "replace", failed |-> FALSE]
         /\ last.op = "replace" /\ last.point = "none"
         /\ store[uid["c1"]] = Row(updated_fridge["c1"])

C21_Witness ==
    /\ result["c1"].ok
    /\ store0["u1"] = Row(FullFridge)
    /\ BatchNames(items["c1"]) = {"milk"}
    /\ result["c1"].n = 1

\* an amount in mills that is a whole number of cents
WholeCents(p) == p.t = "num" /\ p.v % 10 = 0

\* C22: every stored unit_price is a whole number of cents, after every
\* sequence and interleaving of calls on inventories that start that way;
\* 3 @ 1.00 merged with 1 @ 1.015 is stored as 4 @ 1.00.
C22_PricesRounded ==
    /\ \A u \in Uids : \A n \in DOMAIN store[u].fridge :
          WholeCents(store[u].fridge[n].unit_price)
    /\ \A c \in Callers :
         ( /\ result[c].ok /\ NoFault(c)
           /\ \A d \in Callers \ {c} : pc[d] = "idle"
           /\ store0[uid[c]] = Row(FullFridge)
           /\ items[c] = Dict(<<[name |-> "eggs", data |-> Item(Num(1), Num(1015))]>>) )
           => store[uid[c]].fridge["eggs"] = Entry(Num(4), Num(1000))

C22_Witness ==
    /\ result["c1"].ok /\ NoFault("c1") /\ pc["c2"] = "idle"
    /\ store0["u1"] = Row(FullFridge)
    /\ items["c1"] = Dict(<<[name |-> "eggs", data |-> Item(Num(1), Num(1015))]>>)
    /\ store["u1"].fridge["eggs"] = Entry(Num(4), Num(1000))

\* the one entry of a batch with a single entry
Only(b) == b.entries[1]

\* C23: when an item is inserted by one call and merged by the next, the
\* stored unit_price is within one cent per merge (two cents here) of the
\* exact average cost sum(q_i * p_i) / sum(q_i) of all units added.
C23_AverageDrift ==
    \A u \in Uids : \A n \in GoodNames :
      ( /\ AllReturned
        /\ \A c \in Callers :
             /\ uid[c] = u /\ result[c].ok /\ NoFault(c)
             /\ Len(items[c].entries) = 1 /\ Only(items[c]).name = n
        /\ n \notin DOMAIN store0[u].fridge
        /\ n \in DOMAIN store[u].fridge
        /\ store[u].fridge[n].quantity =
              Num(Only(items["c1"]).data.d.quantity.v + Only(items["c2"]).data.d.quantity.v) )
      => LET q1 == Only(items["c1"]).data.d.quantity.v
             p1 == Only(items["c1"]).data.d.unit_price.v
             q2 == Only(items["c2"]).data.d.quantity.v
             p2 == Only(items["c2"]).data.d.unit_price.v
             stored == store[u].fridge[n].unit_price.v * (q1 + q2)
             exact == q1 * p1 + q2 * p2
         IN  /\ stored - exact <= 2 * 10 * (q1 + q2)
             /\ exact - stored <= 2 * 10 * (q1 + q2)

\* C24: validate_items is deterministic and has no side effects: the step
\* that validates leaves the batch, the store and the gateway untouched, and
\* the verdict it gave is the verdict of validate_items applied again to
\* the batch as the step left it.
C24_ValidatePure ==
    [][ ( pc["c1"] = "validate" /\ pc'["c1"] # "validate" )
          => /\ items' = items
             /\ store' = store
             /\ ops' = ops /\ last' = last /\ pool_out' = pool_out
             /\ LET again == validate_items(items'["c1"]) IN
                IF again.err = "ok"
                THEN pc'["c1"] = "fetch" /\ result'["c1"] = NoResult
                ELSE /\ pc'["c1"] = "done"
                     /\ result'["c1"].msg = "validation"
                     /\ result'["c1"].detail = again.err ]_vars

C24_Witness ==
    /\ pc["c1"] = "fetch"
    /\ Len(items["c1"].entries) = 2
    /\ items["c1"].entries[2].data = Item(Str(1), Num(3000))
    /\ ops["c1"] = <<>> /\ store = store0

\* C25: update_fridge always ends with a (success, message) result; the
\* result is a failure whenever validation, the fetch, the create, the merge
\* or the replace failed, and it is a success only when the merged inventory
\* was persisted.
C25_StructuredResult ==
    pc["c1"] = "done"
      => /\ result["c1"].msg \in
               {"validation", "create_failed", "unexpected", "update_failed", "success"}
         /\ result["c1"].ok <=> result["c1"].msg = "success"
         /\ result["c1"].ok
              => /\ validate_items(items["c1"]).err = "ok"
                 /\ NoFault("c1")
                 /\ store[uid["c1"]] = Row(updated_fridge["c1"])

\* C26: get_fridge_by_id is read-only: a step whose gateway operation is a
\* get, whatever it returns or however it fails, leaves the rows of all
\* uids as they were, so it creates no record, and it holds no connection
\* afterwards.
C26_GetIsReadOnly ==
    [][ last'.op = "get" => store' = store /\ pool_out' = pool_out ]_vars

C26_Witness ==
    /\ last.op = "get" /\ last.point = "none"
    /\ ~last.ok
    /\ ~store[last.uid].exists
    /\ \E u \in Uids : store[u] # store0[u]

\* the inventory stored for u before the call, {} when u had no record
Prior(u) == IF store0[u].exists THEN store0[u].fridge ELSE EmptyFridge

C28_FailedFetchStops ==
    ( /\ store0[uid["c1"]].exists
      /\ Len(ops["c1"]) >= 1
      /\ ops["c1"][1].op = "fetch" /\ ops["c1"][1].failed )
      => /\ store[uid["c1"]] = store0[uid["c1"]]
         /\ pc["c1"] = "done" => ~result["c1"].ok

\* C29: the stored inventory of a uid is monotone: no step of a call,
\* whether its store operations succeed or fail, removes a stored item name
\* or lowers its stored quantity.
C29_StoreMonotone ==
    [][ \A u \in Uids : \A n \in DOMAIN store[u].fridge :
          /\ n \in DOMAIN store'[u].fridge
          /\ store'[u].fridge[n].quantity.t = "num"
          /\ store'[u].fridge[n].quantity.v >= store[u].fridge[n].quantity.v ]_vars

\* C30: while update_fridge is in progress on a uid that had no record, a
\* get_fridge_by_id of that uid by another caller that has written nothing
\* observes the state before the update, not-found; it never observes the
\* created but still empty record.
C30_NoIntermediateState ==
    \A c, d \in Callers :
      ( /\ c # d
        /\ last.op = "get" /\ last.caller = d /\ last.point = "none"
        /\ pc[d] \in {"create", "merge"}
        /\ uid[c] = last.uid
        /\ pc[c] \in {"validate", "fetch", "create", "merge", "replace"}
        /\ ~store0[last.uid].exists )
      => last.val = None

\* C31: update_fridge_contents(uid, inv) returns True only if inv was
\* written: right after it returned True, get_fridge_by_id(uid) returns inv,
\* also when uid had no record before the call.
C31_TrueMeansWritten ==
    ( last.op = "replace" /\ last.ok )
      => get_fridge_by_id(store, last.uid, "none") = last.val

\* C32: a batch that validate_items accepts can be merged and persisted:
\* with no store failure the call never ends in "Unexpected error", and
\* every quantity and unit_price it stores is a number.
C32_AcceptedIsMergeable ==
    ( pc["c1"] = "done" /\ validate_items(items["c1"]).err = "ok" /\ NoFault("c1") )
      => /\ result["c1"].msg # "unexpected"
         /\ \A n \in DOMAIN store[uid["c1"]].fridge :
               /\ store[uid["c1"]].fridge[n].quantity.t = "num"
               /\ store[uid["c1"]].fridge[n].unit_price.t = "num"

\* the checks of one entry in the order of section 4.1
Checks == <<"invalid_name", "item_not_dict", "missing_keys", "invalid_numeric",
            "non_positive_quantity", "negative_price">>

\* check k, taken by itself, rejects the entry e
Fails(e, k) ==
    LET d == e.data.d
        has(f) == e.data.isdict /\ f \in DOMAIN d
    IN  CASE k = 1 -> e.name \in BlankNames
          [] k = 2 -> ~e.data.isdict
          [] k = 3 -> e.data.isdict /\ ~(has("quantity") /\ has("unit_price"))
          [] k = 4 -> \/ has("quantity") /\ d.quantity.t = "bad"
                      \/ has("unit_price") /\ d.unit_price.t = "bad"
          [] k = 5 -> has("quantity") /\ d.quantity.t \in {"num", "str"} /\ d.quantity.v <= 0
          [] k = 6 -> has("unit_price") /\ d.unit_price.t \in {"num", "str"}
                         /\ d.unit_price.v < 0

Invalid(e) == \E k \in 1..Len(Checks) : Fails(e, k)

\* C33: validate_items reports the first failure of a single pass in input
\* order: the entry of the error is the first invalid entry of the batch,
\* the error is the first of the checks name, shape, missing field,
\* non-numeric, non-positive quantity, negative price that rejects that
\* entry, and it is the error update_fridge returns.
C33_FirstFailure ==
    LET b == items["c1"]
        v == validate_items(b)
    IN  ( b.isdict /\ \E i \in 1..Len(b.entries) : Invalid(b.entries[i]) )
          => /\ v.at \in 1..Len(b.entries)
             /\ Invalid(b.entries[v.at])
             /\ \A j \in 1..(v.at - 1) : ~Invalid(b.entries[j])
             /\ \E k \in 1..Len(Checks) :
                   /\ v.err = Checks[k]
                   /\ Fails(b.entries[v.at], k)
                   /\ \A h \in 1..(k - 1) : ~Fails(b.entries[v.at], h)
             /\ pc["c1"] # "validate"
                  => /\ pc["c1"] = "done"
                     /\ result["c1"].msg = "validation"
                     /\ result["c1"].detail = v.err

C33_Witness ==
    /\ pc["c1"] = "done"
    /\ result["c1"].detail = "invalid_numeric"
    /\ Len(items["c1"].entries) = 2
    /\ ~Invalid(items["c1"].entries[1])
    /\ items["c1"].entries[2].data = Item(Num(0), Bad)

\* the place of a gateway operation in update_fridge
Rank(op) == CASE op = "fetch" -> 1 [] op = "create" -> 2 [] op = "replace" -> 3

\* C34: in one update_fridge call the store operations come in the order
\* fetch, create, replace, each at most once; create is called if and only
\* if the fetch returned no record; replace is called only after validation,
\* the fetch and the create (when there was one) succeeded.
C34_OperationOrder ==
    LET o == ops["c1"]
        called(name) == \E i \in 1..Len(o) : o[i].op = name
    IN  /\ \A i, j \in 1..Len(o) : i < j => Rank(o[i].op) < Rank(o[j].op)
        /\ Len(o) >= 1 => o[1].op = "fetch" /\ validate_items(items["c1"]).err = "ok"
        /\ pc["c1"] \notin {"validate", "fetch", "create"}
             => ( called("create")
                    <=> called("fetch") /\ (o[1].failed \/ ~store0[uid["c1"]].exists) )
        /\ called("replace")
             => \A i \in 1..Len(o) : o[i].op # "replace" => ~o[i].failed

\* C35: a use of get_cursor that acquired a connection ends with exactly
\* one of commit or rollback before the connection goes back to the pool:
\* commit if and only if nothing raised, rollback if the cursor, the body
\* or the commit raised.
C35_CommitOrRollback ==
    last.op # "none"
      => LET tr == cursor_trace(last.point)
             at(ev) == CHOOSE i \in 1..Len(tr) : tr[i] = ev
             raised == \E i \in 1..Len(tr) :
                          tr[i] \in {"cursor_raised", "body_raised", "commit_raised"}
         IN  Count(tr, "getconn") = 1
               => /\ Count(tr, "commit") + Count(tr, "rollback") = 1
                  /\ Count(tr, "commit") = 1 <=> ~raised
                  /\ Count(tr, "rollback") = 1 <=> raised
                  /\ Count(tr, "commit") = 1 => at("commit") < at("putconn")
                  /\ Count(tr, "rollback") = 1
                       => /\ at("rollback") < at("putconn")
                          /\ \E i \in 1..Len(tr) :
                                /\ tr[i] \in {"cursor_raised", "body_raised", "commit_raised"}
                                /\ i < at("rollback")
                  /\ get_cursor(last.point).committed <=> Count(tr, "commit") = 1

C35_Witness ==
    /\ last.op = "replace" /\ last.point = "commit"
    /\ ~last.ok
    /\ last.before = Row(FullFridge)
    /\ last.val = Some(EmptyFridge)
    /\ store[last.uid] = Row(FullFridge)

\* C36: when merge_items updates an existing item with a positive quantity,
\* the new unit_price lies between the smaller and the larger of the old
\* price and the batch price, up to the half cent of the rounding.
C36_PriceBetween ==
    pc["c1"] = "replace"
      => \A i \in 1..Len(items["c1"].entries) :
           LET e == items["c1"].entries[i]
               n == e.name
               new == e.data.d
           IN  ( /\ n \in DOMAIN PreMerge
                 /\ new.quantity.t = "num" /\ new.quantity.v > 0
                 /\ new.unit_price.t = "num" )
               => LET old == PreMerge[n].unit_price.v
                      lo == IF old < new.unit_price.v THEN old ELSE new.unit_price.v
                      hi == IF old < new.unit_price.v THEN new.unit_price.v ELSE old
                      p == updated_fridge["c1"][n].unit_price
                  IN  p.t = "num" /\ lo - 5 <= p.v /\ p.v <= hi + 5

C36_Witness ==
    /\ pc["c1"] = "replace"
    /\ PreMerge = FullFridge
    /\ items["c1"] = Dict(<<[name |-> "milk", data |-> Item(Num(2), Num(5000))]>>)
    /\ updated_fridge["c1"]["milk"].unit_price.v > 3000
    /\ updated_fridge["c1"]["milk"].unit_price.v < 5000

\* C37: under concurrent first calls at most one DatabaseManager and at
\* most one connection pool are ever created: no second manager or pool
\* replaces the first.
C37_OneManagerOnePool ==
    /\ db.managers <= 1
    /\ db.pools <= 1

====
